---- MODULE Spec2Model ----
(***************************************************************************)
(* Model of src/main.py: a single sequential run of main().  Every         *)
(* requests.get / requests.post is one step whose response is chosen by    *)
(* the environment, and so is every reading of the UTC clock.              *)
(***************************************************************************)
EXTENDS Integers, Sequences, FiniteSets, TLC

\* ---------------------------------------------------------------- bounds
MaxBackfill == 2
MaxMeters == 3
MaxSubjects == 1
MaxTicks == 1

\* ------------------------------------------------------- calendar (UTC)
\* Day numbers count from Epoch; the run starts on day StartDay.
Epoch == [y |-> 2024, m |-> 2, d |-> 27]
StartDay == MaxBackfill + 2

IsLeap(y) == (y % 4 = 0 /\ y % 100 # 0) \/ y % 400 = 0

DaysInMonth(y, m) ==
    IF m = 2 THEN (IF IsLeap(y) THEN 29 ELSE 28)
    ELSE IF m \in {4, 6, 9, 11} THEN 30 ELSE 31

NextDate(c) ==
    IF c.d < DaysInMonth(c.y, c.m) THEN [c EXCEPT !.d = c.d + 1]
    ELSE IF c.m < 12 THEN [y |-> c.y, m |-> c.m + 1, d |-> 1]
    ELSE [y |-> c.y + 1, m |-> 1, d |-> 1]

RECURSIVE DateOf(_)
\* the calendar date of day number n (n >= 0)
DateOf(n) ==
    IF n = 0 THEN Epoch
    ELSE NextDate(DateOf(n - 1))

\* strftime("%Y%m%d"): the year, month and day fields of the string
strftime_Ymd(n) == <<DateOf(n).y, DateOf(n).m, DateOf(n).d>>

\* ------------------------------------------------------------ responses
Tokens == {"T1"}
MeterIds == {"A", "B"}
\* the raw reading payload the provider holds for a meter
PayloadOf(m) == IF m = "A" THEN "raw-A" ELSE "raw-B"

RECURSIVE SeqsUpTo(_, _)
SeqsUpTo(S, n) ==
    IF n = 0 THEN {<<>>}
    ELSE LET P == SeqsUpTo(S, n - 1)
         IN  P \cup {Append(s, x) : s \in {q \in P : Len(q) = n - 1}, x \in S}

\* one record of a JSON list: a dict with an "id", a dict without, or not a dict
JsonRecords(ids) ==
    {[type |-> "dict", has_id |-> TRUE, id |-> i] : i \in ids}
      \cup {[type |-> "dict", has_id |-> FALSE, id |-> "-"],
            [type |-> "str", has_id |-> FALSE, id |-> "-"]}

SubjectRecords ==
    {[type |-> "dict", has_id |-> TRUE, id |-> "s1"],
     [type |-> "dict", has_id |-> FALSE, id |-> "-"]}

\* The shape of a response: "http_error" (raise_for_status raises), "invalid"
\* (the body does not parse), "not_dict" (the body is not an object),
\* "no_field" (the field read is absent), "not_list" (the field is present
\* and not a list), or the shape the caller expects.
SubjectsResponses ==
    {[shape |-> s, result |-> <<>>] : s \in {"http_error", "invalid", "not_dict"}}
      \cup {[shape |-> "list", result |-> r] : r \in SeqsUpTo(SubjectRecords, MaxSubjects)}

\* "empty": {"result": []}, "nonempty": {"result": [m]}
MeasurementsResponses ==
    {"http_error", "invalid", "not_dict", "empty", "nonempty"}

TokenResponses ==
    {[shape |-> s, token |-> ""] : s \in {"http_error", "invalid", "no_field", "empty"}}
      \cup {[shape |-> "token", token |-> t] : t \in Tokens}

MetersResponses ==
    {[shape |-> s, meters |-> <<>>] : s \in {"http_error", "invalid", "not_dict", "no_field", "not_list"}}
      \cup {[shape |-> "list", meters |-> r] : r \in SeqsUpTo(JsonRecords(MeterIds), MaxMeters)}

DataResponses(m) ==
    {[shape |-> s, payload |-> "-"] : s \in {"http_error", "invalid"}}
      \cup {[shape |-> "json", payload |-> PayloadOf(m)]}

ForwardResponses == {"ok", "http_error"}

\* ------------------------------------------------------- pure functions
\* faulty variant: the comprehension without its filter
IdsOf_no_filter(records) == [i \in 1..Len(records) |-> records[i].id]

RECURSIVE IdsOf(_)
\* [r["id"] for r in records if isinstance(r, dict) and "id" in r]
IdsOf(records) ==
    IF records = <<>> THEN <<>>
    ELSE LET r == Head(records)
         IN  IF r.type = "dict" /\ r.has_id
             THEN <<r.id>> \o IdsOf(Tail(records))
             ELSE IdsOf(Tail(records))

InSeq(x, s) == \E i \in 1..Len(s) : s[i] = x

\* faulty variant: every id is appended, seen or not
DedupLoop_keep_all(ids, unique) == unique \o ids

RECURSIVE DedupLoop(_, _)
\* the seen/unique_meter_ids loop; seen is the set of elements of unique
DedupLoop(ids, unique) ==
    IF ids = <<>> THEN unique
    ELSE IF ~InSeq(Head(ids), unique)
         THEN DedupLoop(Tail(ids), Append(unique, Head(ids)))
         ELSE DedupLoop(Tail(ids), unique)

\* faulty variant: the meters are a list fixed in the program, not the ones
\* the provider has just listed
UniqueMeterIds_fixed(meters) == <<"A">>

\* lines 76-84: the ids of the records, then without repetition
UniqueMeterIds(meters) == DedupLoop(IdsOf(meters), <<>>)

\* faulty variant: timedelta(days=1) is not subtracted
YesterdayEnd_today(today) == strftime_Ymd(today) \o <<23, 59, 59>>

\* yesterday with hour, minute, second replaced, as the six fields of
\* strftime("%Y-%m-%dT%H:%M:%SZ")
YesterdayEnd(today) == strftime_Ymd(today - 1) \o <<23, 59, 59>>

\* what datetime.now(timezone.utc) may return after it returned day number
\* last: the clock never goes back, and the date may have rolled over
ClockReadings(last) == last..(StartDay + MaxTicks)

\* ---------------------------------------------------------------- state
VARIABLES
    backfill_days,  \* args.backfill_days
    now,            \* day number of the last datetime.now(timezone.utc) read
    pc,             \* the external call main() is about to make, or "exit"
    outcome,        \* "running", "skipped", "done", "failed"
    exit_status,    \* "running", then how the process left main()
    subjects,       \* check_run_yesterday: the subject listing's response
    subject_ids,    \* check_run_yesterday: subject_ids
    token,          \* main: token
    days_ago,       \* main: loop variable of the backfill loop (0 outside it)
    date_str,       \* the cycle's date_str (<<>> before a cycle has read the clock)
    meters_data,    \* fetch_power_usage: the meter list's response
    meter_ids,      \* fetch_power_usage: meter_ids
    next_meter,     \* position of the for loop over meter_ids
    all_data,       \* fetch_power_usage: all_data
    data,           \* main: data, once fetch_power_usage has returned
    calls,          \* every HTTP request made so far, with its response
    request_body,   \* the list in the JSON body of the latest request, if any
    stdout          \* every line printed so far

vars == <<backfill_days, now, pc, outcome, exit_status, subjects, subject_ids,
          token, days_ago, date_str, meters_data, meter_ids, next_meter,
          all_data, data, calls, request_body, stdout>>

NoResponse == [shape |-> "none"]

Call(api, tok, date, meter, resp, payload) ==
    [api |-> api, token |-> tok, date |-> date, meter |-> meter,
     resp |-> resp, payload |-> payload]

\* a printed line: its fixed text and the date it interpolates, if any
Line(text) == [text |-> text, date |-> <<>>]
DatedLine(text, date) == [text |-> text, date |-> date]

Init ==
    /\ backfill_days \in -1..MaxBackfill
    /\ now = StartDay
    /\ pc = "subjects"
    /\ outcome = "running"
    /\ exit_status = "running"
    /\ subjects = NoResponse
    /\ subject_ids = <<>>
    /\ token = ""
    /\ days_ago = 0
    /\ date_str = <<>>
    /\ meters_data = NoResponse
    /\ meter_ids = <<>>
    /\ next_meter = 0
    /\ all_data = <<>>
    /\ data = <<>>
    /\ calls = <<>>
    /\ request_body = <<>>
    /\ stdout = <<>>

\* faulty variant: no except clause in main
Raise_uncaught(lines) ==
    /\ stdout' = stdout \o lines
    /\ pc' = "exit"
    /\ outcome' = "failed"
    /\ exit_status' = "uncaught"

\* an exception propagates to main's except clause, which prints and returns
Raise(lines) ==
    /\ stdout' = stdout \o lines \o <<Line("Error occurred")>>
    /\ pc' = "exit"
    /\ outcome' = "failed"
    /\ exit_status' = "normal"

\* faulty variant: the return statement is missing and main goes on with the
\* single-day fetch of line 175
Return_falls_through(lines, result) ==
    /\ stdout' = stdout \o lines
    /\ pc' = "meters"
    /\ outcome' = result
    /\ exit_status' = "normal"

\* main returns without an exception
Return(lines, result) ==
    /\ stdout' = stdout \o lines
    /\ pc' = "exit"
    /\ outcome' = result
    /\ exit_status' = "normal"

Continue(lines, next) ==
    /\ stdout' = stdout \o lines
    /\ pc' = next
    /\ UNCHANGED <<outcome, exit_status>>

\* raise_for_status() or json() raises, or the body is not of the shape the
\* caller goes on to use
SubjectsFail(r) == r.shape \in {"http_error", "invalid", "not_dict"}
MeasurementsFail(r) == r \in {"http_error", "invalid", "not_dict"}

\* faulty variants: the check never finds data; the check takes any parsed
\* body for data
ResultNonEmpty_never(r) == FALSE
ResultNonEmpty_any_body(r) == r \in {"empty", "nonempty"}

\* bool(resp2.json().get("result"))
ResultNonEmpty(r) == r = "nonempty"

\* check_run_yesterday, step 1: list the subjects
ListSubjects ==
    /\ pc = "subjects"
    /\ \E r \in SubjectsResponses :
        /\ subjects' = r
        /\ calls' = Append(calls, Call("subjects", "", <<>>, "", r.shape, "-"))
        /\ request_body' = <<>>
        /\ IF SubjectsFail(r)
           THEN Raise(<<>>) /\ UNCHANGED subject_ids
           ELSE /\ subject_ids' = IdsOf(r.result)
                /\ Continue(<<>>, "measurements")
    /\ UNCHANGED <<backfill_days, now, token, days_ago, date_str, meters_data,
                   meter_ids, next_meter, all_data, data>>

\* check_run_yesterday, step 2: search measurements up to yesterday 23:59:59,
\* then main's branch on the result
SearchMeasurements ==
    /\ pc = "measurements"
    /\ \E r \in MeasurementsResponses, t \in ClockReadings(now) :
        /\ now' = t
        /\ calls' = Append(calls, Call("measurements", "", YesterdayEnd(t), "", r, "-"))
        /\ request_body' = subject_ids
        /\ IF MeasurementsFail(r)
           THEN Raise(<<>>) /\ UNCHANGED <<subjects, subject_ids>>
           ELSE IF ResultNonEmpty(r)
                THEN /\ Return(<<Line("skipping")>>, "skipped")
                     /\ UNCHANGED <<subjects, subject_ids>>
                ELSE /\ Continue(<<Line("proceeding"), Line("Authenticating")>>, "token")
                     /\ subjects' = NoResponse
                     /\ subject_ids' = <<>>
    /\ UNCHANGED <<backfill_days, token, days_ago, date_str, meters_data,
                   meter_ids, next_meter, all_data, data>>

\* faulty variant: the test "if not token" is missing
TokenFail_status_and_parse_only(r) == r.shape \in {"http_error", "invalid"}

\* raise_for_status() or json() raises, or token_data.get("token") is falsy
TokenFail(r) == r.shape # "token"

\* faulty variant: the header is built without the token
Bearer_blank(tok) == ""

\* "Authorization": f"Bearer {token}"
Bearer(tok) == tok

\* get_access_token, then main's choice between backfill and yesterday only
GetAccessToken ==
    /\ pc = "token"
    /\ \E r \in TokenResponses :
        /\ calls' = Append(calls, Call("token", "", <<>>, "", r.shape, r.token))
        /\ request_body' = <<>>
        /\ IF TokenFail(r)
           THEN Raise(<<Line("Failed to authenticate")>>) /\ UNCHANGED <<token, days_ago>>
           ELSE /\ token' = r.token
                /\ IF backfill_days > 0
                   THEN /\ days_ago' = backfill_days
                        /\ Continue(<<Line("Backfilling")>>, "meters")
                   ELSE /\ days_ago' = 0
                        /\ Continue(<<>>, "meters")
    /\ UNCHANGED <<backfill_days, now, subjects, subject_ids, date_str,
                   meters_data, meter_ids, next_meter, all_data, data>>

\* the values of the latest fetch/forward cycle: main's date_str and data, and
\* the locals of fetch_power_usage
cycle_vars == <<date_str, meters_data, meter_ids, next_meter, all_data, data>>

\* the loop body starts again: the values of the finished iteration are gone
NextIteration ==
    /\ date_str' = <<>>
    /\ meters_data' = NoResponse
    /\ meter_ids' = <<>>
    /\ next_meter' = 0
    /\ all_data' = <<>>
    /\ data' = <<>>

\* faulty variant: the test of line 164 is "args.backfill_days >= 0"
TargetDate_loop_from_zero(today, backfill, ago) ==
    IF backfill >= 0 THEN strftime_Ymd(today - ago) ELSE strftime_Ymd(today - 1)

\* the date a cycle works on: main line 167-168 in the backfill loop,
\* fetch_power_usage line 58-60 otherwise
TargetDate(today, backfill, ago) ==
    IF backfill > 0 THEN strftime_Ymd(today - ago) ELSE strftime_Ymd(today - 1)

\* the line main prints before it calls fetch_power_usage, and the one before
\* it calls forward_to_blockbax
FetchingLine(backfill, date) ==
    IF backfill > 0 THEN DatedLine("Fetching power usage for", date)
    ELSE Line("Fetching power usage for yesterday")

SendingLine(backfill, date) ==
    IF backfill > 0 THEN DatedLine("Sending data for", date)
    ELSE Line("Sending data")

\* faulty variant: only isinstance(meters_data, dict) is tested
ExpectedShape_any_dict(r) == r.shape \in {"list", "no_field", "not_list"}

\* isinstance(meters_data, dict) and "meters" in meters_data
\*   and isinstance(meters_data["meters"], list)
ExpectedShape(r) == r.shape = "list"

\* start of a cycle: the date is read from the clock, then fetch_power_usage
\* step 1 lists the meters and deduplicates their ids
ListMeters ==
    /\ pc = "meters"
    /\ \E r \in MetersResponses, t \in ClockReadings(now) :
        LET d == TargetDate(t, backfill_days, days_ago)
            fetching == FetchingLine(backfill_days, d)
        IN
        /\ now' = t
        /\ date_str' = d
        /\ meters_data' = r
        /\ calls' = Append(calls, Call("meters", Bearer(token), <<>>, "", r.shape, "-"))
        /\ request_body' = <<>>
        /\ IF r.shape = "http_error"
           THEN /\ Raise(<<fetching>>)
                /\ UNCHANGED <<meter_ids, next_meter, all_data, data>>
           ELSE IF ~ExpectedShape(r)
           THEN /\ Raise(<<fetching, Line("Failed to parse meters data")>>)
                /\ UNCHANGED <<meter_ids, next_meter, all_data, data>>
           ELSE /\ meter_ids' = UniqueMeterIds(r.meters)
                /\ all_data' = <<>>
                /\ IF meter_ids' = <<>>
                   THEN /\ data' = <<>>
                        /\ next_meter' = 0
                        /\ Continue(<<fetching, SendingLine(backfill_days, d)>>, "forward")
                   ELSE /\ next_meter' = 1
                        /\ Continue(<<fetching>>, "data")
                        /\ UNCHANGED data
    /\ UNCHANGED <<backfill_days, subjects, subject_ids, token, days_ago>>

\* faulty variant: an unparseable body is not noticed
DataFail_only_status(r) == r.shape = "http_error"

\* faulty variant: a meter whose fetch failed is passed over
DataFail_never(r) == FALSE

\* raise_for_status() or json.loads() raises
DataFail(r) == r.shape # "json"

\* faulty variant: insert(0, raw_data)
AppendData_front(all, raw_data) == <<raw_data>> \o all

\* all_data.append(raw_data)
AppendData(all, raw_data) == Append(all, raw_data)

\* fetch_power_usage step 2: one iteration of the loop over meter_ids
GetDataRaw ==
    /\ pc = "data"
    /\ \E r \in DataResponses(meter_ids[next_meter]) :
        /\ calls' = Append(calls, Call("data", Bearer(token), date_str, meter_ids[next_meter],
                                       r.shape, r.payload))
        /\ request_body' = <<>>
        /\ IF DataFail(r)
           THEN /\ Raise(<<Line("Failed to fetch data for meter")>>)
                /\ UNCHANGED <<next_meter, all_data, data>>
           ELSE /\ all_data' = AppendData(all_data, r.payload)
                /\ IF next_meter = Len(meter_ids)
                   THEN /\ data' = all_data'
                        /\ Continue(<<SendingLine(backfill_days, date_str)>>, "forward")
                        /\ UNCHANGED next_meter
                   ELSE /\ next_meter' = next_meter + 1
                        /\ Continue(<<>>, "data")
                        /\ UNCHANGED data
    /\ UNCHANGED <<backfill_days, now, subjects, subject_ids, token, days_ago,
                   date_str, meters_data, meter_ids>>

\* faulty variant: the last payload is posted instead of the list
ForwardBody_last_only(d) == IF d = <<>> THEN d ELSE <<d[Len(d)]>>

\* requests.post(BLOCKBAX_URL, json=data): the body is the list as it stands
ForwardBody(d) == d

\* faulty variant: the status of the submission is not looked at
ForwardFail_ignored(r) == FALSE

\* response.raise_for_status() raises
ForwardFail(r) == r # "ok"

\* forward_to_blockbax, then the end of the cycle in main
Forward ==
    /\ pc = "forward"
    /\ \E r \in ForwardResponses :
        /\ calls' = Append(calls, Call("forward", "", <<>>, "", r, "-"))
        /\ request_body' = ForwardBody(data)
        /\ IF ForwardFail(r)
           THEN Raise(<<>>) /\ UNCHANGED <<days_ago, cycle_vars>>
           ELSE IF backfill_days > 0
           THEN IF days_ago > 1
                THEN /\ days_ago' = days_ago - 1
                     /\ Continue(<<>>, "meters")
                     /\ NextIteration
                ELSE /\ Return(<<Line("Backfill complete")>>, "done")
                     /\ UNCHANGED <<days_ago, cycle_vars>>
           ELSE Return(<<Line("Done")>>, "done") /\ UNCHANGED <<days_ago, cycle_vars>>
    /\ UNCHANGED <<backfill_days, now, subjects, subject_ids, token>>

Next ==
    \/ ListSubjects
    \/ SearchMeasurements
    \/ GetAccessToken
    \/ ListMeters
    \/ GetDataRaw
    \/ Forward

Spec == Init /\ [][Next]_vars

\* every call made with requests returns, with a response or an exception,
\* and the interpreter then runs main up to its next call
FairSpec == Spec /\ WF_vars(Next)

\* ------------------------------------------------------------ properties
CallIdx(api) == {i \in 1..Len(calls) : calls[i].api = api}
ProviderApis == {"token", "meters", "data"}

\* the responses after which the caller goes on
Succeeded(c) == c.resp \in {"list", "empty", "nonempty", "token", "json", "ok"}

LastLine == stdout[Len(stdout)]

\* C1: for every backfill day count, once the idempotency check has returned
\* true (the measurement search answered with a non-empty result list) the
\* run has made no token-grant, meter-list, per-meter fetch or forwarding
\* call, and it has ended normally, as skipped.
C1_SkipMakesNoFurtherCall ==
    (\E i \in CallIdx("measurements") : calls[i].resp = "nonempty")
        => /\ \A i \in 1..Len(calls) : calls[i].api \in {"subjects", "measurements"}
           /\ pc = "exit"
           /\ outcome = "skipped"
           /\ exit_status = "normal"

C1_Witness ==
    /\ backfill_days = MaxBackfill
    /\ outcome = "skipped"
    /\ exit_status = "normal"
    /\ calls[Len(calls)].resp = "nonempty"

\* C2 as claimed: a run in which a per-meter fetch call has failed contains no
\* forwarding call at all.
C2_NoForwardInRunOfFailedFetch ==
    (\E i \in CallIdx("data") : ~Succeeded(calls[i])) => CallIdx("forward") = {}

\* C2 amended: a failed per-meter fetch call is the last call of the run, so
\* no forwarding call follows it (neither for its own cycle nor for a later
\* one); the run has ended as failed.
C2_NoForwardAfterFailedFetch ==
    \A i \in CallIdx("data") :
        ~Succeeded(calls[i])
            => /\ i = Len(calls)
               /\ \A j \in CallIdx("forward") : j < i
               /\ pc = "exit"
               /\ outcome = "failed"

\* the second fetch of a cycle failed after the first one succeeded
C2_Witness ==
    /\ Len(calls) >= 2
    /\ calls[Len(calls)].api = "data"
    /\ ~Succeeded(calls[Len(calls)])
    /\ calls[Len(calls) - 1].api = "data"
    /\ Succeeded(calls[Len(calls) - 1])
    /\ outcome = "failed"

\* the dates of the cycles started so far, as main printed them
FetchingLines == SelectSeq(stdout, LAMBDA l : l.text = "Fetching power usage for")

WellFormed(m) == m.type = "dict" /\ m.has_id
OccurringIds(meters) == {meters[i].id : i \in {j \in 1..Len(meters) : WellFormed(meters[j])}}
FirstOccurrence(x, meters) ==
    CHOOSE i \in 1..Len(meters) :
        /\ WellFormed(meters[i]) /\ meters[i].id = x
        /\ \A j \in 1..(i - 1) : ~(WellFormed(meters[j]) /\ meters[j].id = x)

\* ids lists every identifier of meters once, by first occurrence
IsEnumerationOf(ids, meters) ==
    /\ \A i, j \in 1..Len(ids) : i # j => ids[i] # ids[j]
    /\ {ids[i] : i \in 1..Len(ids)} = OccurringIds(meters)
    /\ \A i, j \in 1..Len(ids) :
         i < j => FirstOccurrence(ids[i], meters) < FirstOccurrence(ids[j], meters)

LastMetersCall ==
    LET idx == CallIdx("meters") IN CHOOSE i \in idx : \A j \in idx : j <= i
\* the per-meter fetch calls of the latest cycle, in the order they were made
CycleFetches ==
    IF CallIdx("meters") = {} THEN <<>>
    ELSE LET last == LastMetersCall
             n == Cardinality({i \in (last + 1)..Len(calls) : calls[i].api = "data"})
         IN  [k \in 1..n |-> calls[last + k]]
FetchReturned ==
    /\ meters_data.shape = "list"
    /\ pc = "forward" \/ (pc = "exit" /\ calls[Len(calls)].api = "forward")

\* C4: whenever the meter list had the expected shape, the identifiers the
\* cycle fetches for have no duplicates, are exactly the identifiers occurring
\* in the response, and stand in the order of their first occurrence; the
\* fetch calls made so far in the cycle follow that sequence.
C4_MeterIdsUniqueFirstSeen ==
    meters_data.shape = "list"
        => LET fetches == CycleFetches
           IN  /\ IsEnumerationOf(meter_ids, meters_data.meters)
               /\ Len(fetches) <= Len(meter_ids)
               /\ \A k \in 1..Len(fetches) : fetches[k].meter = meter_ids[k]

C4_Witness ==
    /\ meters_data.shape = "list"
    /\ Len(meters_data.meters) = 3
    /\ meters_data.meters[1].id = "B"
    /\ meters_data.meters[2].id = "A"
    /\ meters_data.meters[3].id = "B"
    /\ meter_ids = <<"B", "A">>
    /\ Len(CycleFetches) = 2

\* C5: when fetch_power_usage has returned for N distinct identifiers, the
\* cycle made exactly N per-meter fetch calls, the k-th for the k-th
\* identifier, and the returned sequence has N elements, the k-th being the
\* response of the k-th call.
C5_OneFetchPerMeterInOrder ==
    FetchReturned
        => LET fetches == CycleFetches
           IN  /\ Len(fetches) = Len(meter_ids)
               /\ Len(data) = Len(meter_ids)
               /\ \A k \in 1..Len(meter_ids) :
                    /\ fetches[k].meter = meter_ids[k]
                    /\ fetches[k].date = date_str
                    /\ fetches[k].resp = "json"
                    /\ data[k] = fetches[k].payload
               /\ \A i, j \in 1..Len(fetches) :
                    i # j => fetches[i].meter # fetches[j].meter

C5_Witness ==
    /\ pc = "forward"
    /\ meter_ids = <<"B", "A">>
    /\ data = <<PayloadOf("B"), PayloadOf("A")>>

\* C6: a run without backfill that ended as done made exactly one meter-list
\* call and exactly one forwarding call, its last call; the fetches were made
\* for the identifiers of the meter list, each once, by first occurrence, and
\* the forwarded body is the sequence of their responses, in that order.
C6_ForwardOnceWithFetchedPayloads ==
    (outcome = "done" /\ backfill_days <= 0)
        => LET fetches == CycleFetches
           IN  /\ Cardinality(CallIdx("meters")) = 1
               /\ Cardinality(CallIdx("forward")) = 1
               /\ calls[Len(calls)].api = "forward"
               /\ IsEnumerationOf([k \in 1..Len(fetches) |-> fetches[k].meter],
                                  meters_data.meters)
               /\ request_body = [k \in 1..Len(fetches) |-> fetches[k].payload]

C6_Witness ==
    /\ outcome = "done"
    /\ backfill_days = 0
    /\ IdsOf(meters_data.meters) = <<"A", "A", "B">>
    /\ Len(CycleFetches) = 2
    /\ request_body = <<PayloadOf("A"), PayloadOf("B")>>

\* C7: a meter-list response that is not an object, lacks the meters field or
\* whose meters field is not a list makes the meter-list call the last call
\* of the run (no per-meter fetch and no forwarding call follows); the parse
\* failure and the error are printed and the run has ended as failed.
C7_MalformedMeterListAborts ==
    \A i \in CallIdx("meters") :
        calls[i].resp \in {"not_dict", "no_field", "not_list"}
            => /\ i = Len(calls)
               /\ pc = "exit"
               /\ outcome = "failed"
               /\ Len(stdout) >= 2
               /\ stdout[Len(stdout) - 1].text = "Failed to parse meters data"
               /\ LastLine.text = "Error occurred"

\* the second day of a backfill meets a meters field that is not a list
C7_Witness ==
    /\ outcome = "failed"
    /\ calls[Len(calls)].api = "meters"
    /\ calls[Len(calls)].resp = "not_list"
    /\ Cardinality(CallIdx("forward")) = 1

HasMalformedRecord(meters) == \E i \in 1..Len(meters) : ~WellFormed(meters[i])

\* C8 as claimed: a meters list holding a record that is not an object with
\* an identifier makes the meter-list call fail and the run abort.
C8_MalformedRecordIsFatal ==
    (meters_data.shape = "list" /\ HasMalformedRecord(meters_data.meters))
        => /\ outcome = "failed"
           /\ calls[Len(calls)].api = "meters"

\* C8 amended: only the outer shape is strict.  A body that does not parse,
\* is not an object, lacks the meters field or whose meters field is not a
\* list ends the run at the meter-list call.  In a meters list, a record that
\* is not an object with an identifier is skipped: the call does not fail,
\* and the identifiers fetched for are exactly those of the other records.
C8_MalformedRecordIsSkipped ==
    /\ meters_data.shape \in {"invalid", "not_dict", "no_field", "not_list"}
         => /\ outcome = "failed"
            /\ calls[Len(calls)].api = "meters"
    /\ meters_data.shape = "list"
         => /\ {meter_ids[k] : k \in 1..Len(meter_ids)} = OccurringIds(meters_data.meters)
            /\ ~(outcome = "failed" /\ calls[Len(calls)].api = "meters")
            /\ \A k \in 1..Len(stdout) : stdout[k].text # "Failed to parse meters data"

\* a run is done although its meter list held both kinds of malformed record
C8_Witness ==
    /\ outcome = "done"
    /\ meters_data.shape = "list"
    /\ \E i, j \in 1..Len(meters_data.meters) :
         /\ meters_data.meters[i].type = "str"
         /\ meters_data.meters[j].type = "dict" /\ ~meters_data.meters[j].has_id
    /\ Len(CycleFetches) = 1
    /\ request_body = <<PayloadOf("A")>>

\* C9: the measurement search is issued exactly once, with the identifiers
\* of the listed subjects (the empty list when the listing is empty); when
\* it succeeds the check does not fail, the run is skipped if its result
\* list is non-empty and goes on to authenticate if it is empty.
C9_CheckerTrueIffResultNonEmpty ==
    [][pc = "measurements"
         => LET c == calls'[Len(calls')]
            IN  /\ Len(calls') = Len(calls) + 1
                /\ c.api = "measurements"
                /\ {i \in 1..Len(calls') : calls'[i].api = "measurements"} = {Len(calls')}
                /\ subjects.result = <<>> => request_body' = <<>>
                /\ {request_body'[k] : k \in 1..Len(request_body')}
                     = OccurringIds(subjects.result)
                /\ c.resp \in {"empty", "nonempty"}
                     => /\ outcome' # "failed"
                        /\ (outcome' = "skipped") <=> (c.resp = "nonempty")
                        /\ (pc' = "token") <=> (c.resp = "empty")
      ]_vars

\* the subject listing was empty and the search, made with no ids, found data
C9_Witness ==
    /\ subjects.shape = "list"
    /\ subjects.result = <<>>
    /\ Len(calls) = 2
    /\ calls[2].api = "measurements"
    /\ request_body = <<>>
    /\ calls[2].resp = "nonempty"
    /\ outcome = "skipped"

\* C10: a call that failed is the last call of the run: it is not retried
\* and no other call follows it; the run has ended as failed, the error was
\* printed last, and main returned normally.
C10_FailureEndsRun ==
    \A i \in 1..Len(calls) :
        ~Succeeded(calls[i])
            => /\ i = Len(calls)
               /\ pc = "exit"
               /\ outcome = "failed"
               /\ stdout # <<>>
               /\ LastLine.text = "Error occurred"
               /\ exit_status = "normal"

\* the submission of the second backfill day fails after the first went through
C10_Witness ==
    /\ outcome = "failed"
    /\ exit_status = "normal"
    /\ calls[Len(calls)].api = "forward"
    /\ calls[Len(calls)].resp = "http_error"
    /\ Cardinality(CallIdx("forward")) = 2

OkForwards == {i \in CallIdx("forward") : calls[i].resp = "ok"}

\* C11: the cycles of a run follow one another: the first meter-list call
\* comes right after the token grant and every later one right after a
\* forwarding call that succeeded.  A failed call of a cycle is the last call
\* of the run, so nothing more is fetched or forwarded for that day or a
\* later one; in a backfill that failed on the day days_ago, the forwards of
\* the backfill_days - days_ago earlier days are all in the record of calls.
C11_BackfillSequentialAbortOnFailure ==
    /\ \A i \in 1..Len(calls) :
         /\ calls[i].api = "meters"
              => /\ i > 1
                 /\ \/ calls[i - 1].api = "token" /\ calls[i - 1].resp = "token"
                    \/ calls[i - 1].api = "forward" /\ calls[i - 1].resp = "ok"
         /\ (calls[i].api \in {"meters", "data", "forward"} /\ ~Succeeded(calls[i]))
              => i = Len(calls) /\ pc = "exit" /\ outcome = "failed"
    /\ (backfill_days > 0 /\ days_ago > 0)
         => LET ok == OkForwards
            IN  /\ Cardinality(ok) >= backfill_days - days_ago
                /\ outcome = "failed" => Cardinality(ok) = backfill_days - days_ago
                /\ Cardinality(CallIdx("meters")) <= Cardinality(ok) + 1

\* the second day of a backfill fails at a fetch; the first day was forwarded
C11_Witness ==
    /\ backfill_days = 2
    /\ days_ago = 1
    /\ outcome = "failed"
    /\ calls[Len(calls)].api = "data"
    /\ calls[Len(calls)].resp = "invalid"
    /\ Cardinality(OkForwards) = 1
    /\ Cardinality(CallIdx("meters")) = 2

GatePassed == \E i \in CallIdx("measurements") : calls[i].resp = "empty"

\* C12: the token grant is requested at most once in a run, and exactly once
\* in a run that passed the idempotency gate, once the run is past that
\* request, whatever the backfill day count and whatever fails later.  The
\* request comes right after the measurement search that found nothing.
\* Every meter-list and per-meter request carries the token the grant
\* returned.
C12_OneTokenGrantUsedByEveryFetch ==
    LET grants == CallIdx("token")
    IN  /\ Cardinality(grants) <= 1
        /\ (GatePassed /\ pc # "token") => Cardinality(grants) = 1
        /\ \A i \in grants :
             /\ i > 1
             /\ calls[i - 1].api = "measurements"
             /\ calls[i - 1].resp = "empty"
        /\ \A i \in CallIdx("meters") \cup CallIdx("data") :
             \E j \in grants :
                /\ j < i
                /\ calls[j].resp = "token"
                /\ calls[j].payload \in Tokens
                /\ calls[i].token = calls[j].payload

\* a backfill of two days that failed at the second day's fetch: one grant,
\* two meter-list calls and two fetches with its token
C12_Witness ==
    /\ backfill_days = 2
    /\ outcome = "failed"
    /\ Cardinality(CallIdx("token")) = 1
    /\ Cardinality(CallIdx("meters")) = 2
    /\ Cardinality(CallIdx("data")) = 2
    /\ calls[Len(calls)].api = "data"
    /\ calls[Len(calls)].token = "T1"

\* C13: a token grant that answers with an error status, with a body that
\* does not parse, or with a body whose token is absent or empty ends the
\* run: "Failed to authenticate" is printed, the run has failed, and there
\* is no meter-list, per-meter or forwarding call.
C13_FailedGrantAbortsRun ==
    \A i \in CallIdx("token") :
        calls[i].resp \in {"http_error", "invalid", "no_field", "empty"}
        => /\ i = Len(calls)
           /\ pc = "exit"
           /\ outcome = "failed"
           /\ token = ""
           /\ CallIdx("meters") \cup CallIdx("data") \cup CallIdx("forward") = {}
           /\ Len(stdout) >= 2
           /\ stdout[Len(stdout) - 1].text = "Failed to authenticate"
           /\ stdout[Len(stdout)].text = "Error occurred"

\* the grant answered with an empty token
C13_Witness ==
    /\ calls # <<>>
    /\ calls[Len(calls)].api = "token"
    /\ calls[Len(calls)].resp = "empty"
    /\ outcome = "failed"

\* C14: in every cycle the calls between the meter-list call and the
\* forwarding call are per-meter fetches that all succeeded: a fetch or a
\* forwarding call comes right after a meter-list call that gave a list or
\* right after a fetch that succeeded.  When the k-th
\* of the N fetches of a cycle fails, it is the last call of the run: the
\* cycle has k fetches and no forwarding call, the k-1 payloads collected so
\* far never became the data handed to the forwarder, and no request body
\* was sent after them.
C14_ForwardOnlyAfterAllFetches ==
    /\ \A j \in 1..Len(calls) :
         calls[j].api \in {"data", "forward"}
         => /\ j > 1
            /\ \/ calls[j - 1].api = "meters" /\ calls[j - 1].resp = "list"
               \/ calls[j - 1].api = "data" /\ calls[j - 1].resp = "json"
    /\ \A i \in 1..Len(calls) :
         (calls[i].api = "data" /\ calls[i].resp # "json")
         => LET fetches == CycleFetches
                k == Len(fetches)
            IN  /\ i = Len(calls)
                /\ pc = "exit"
                /\ outcome = "failed"
                /\ k = i - LastMetersCall
                /\ k = next_meter
                /\ k <= Len(meter_ids)
                /\ Len(all_data) = k - 1
                /\ \A n \in 1..(k - 1) : fetches[n].resp = "json"
                /\ data = <<>>
                /\ request_body = <<>>

\* the second of two fetches failed after the first had brought its payload
C14_Witness ==
    /\ outcome = "failed"
    /\ Len(meter_ids) = 2
    /\ next_meter = 2
    /\ all_data = <<PayloadOf(meter_ids[1])>>
    /\ calls[Len(calls)].api = "data"
    /\ calls[Len(calls)].resp = "http_error"
    /\ data = <<>>

\* 23:59:59 of the calendar day before the day numbered today
LastSecondBefore(today) ==
    LET y == DateOf(today - 1) IN <<y.y, y.m, y.d, 23, 59, 59>>

\* C15: the idempotency check runs once and first: the subject listing is
\* the first call of the run and no later call, the measurement search is
\* the second call, if there is one, and no other call, however many
\* backfill days follow.  The toDate of the search is 23:59:59 of the day
\* before the day the clock showed when the search was built, for every
\* backfill day count: it is compared with the clock in the state the search
\* leaves, where now is still that reading; the record of calls only grows.
C15_CheckerOnceFirstForYesterday ==
    /\ pc = "subjects" <=> calls = <<>>
    /\ \A j \in 1..Len(calls) :
         /\ calls[j].api = "subjects" <=> j = 1
         /\ calls[j].api = "measurements" <=> j = 2
    /\ Len(calls) = 2 => calls[2].date = LastSecondBefore(now)
    /\ Len(calls) > 2 => SubSeq(calls[2].date, 4, 6) = <<23, 59, 59>>

\* a finished backfill of two days: two cycles, one check
C15_Witness ==
    /\ backfill_days = 2
    /\ outcome = "done"
    /\ Cardinality(CallIdx("meters")) = 2
    /\ Cardinality(CallIdx("subjects")) = 1
    /\ Cardinality(CallIdx("measurements")) = 1
    /\ calls[2].date = LastSecondBefore(StartDay)

\* the state of the orchestrator in the words of its state machine
Terminal == {"SKIPPED", "DONE", "FAILED"}

State ==
    IF outcome = "skipped" THEN "SKIPPED"
    ELSE IF outcome = "done" THEN "DONE"
    ELSE IF outcome = "failed" THEN "FAILED"
    ELSE IF pc \in {"subjects", "measurements"} THEN "CHECKING_IDEMPOTENCY"
    ELSE IF pc = "token" THEN "AUTHENTICATING"
    ELSE IF pc \in {"meters", "data"} THEN "FETCHING"
    ELSE IF pc = "forward" THEN "FORWARDING"
    ELSE "NONE"

Transitions ==
    {<<"CHECKING_IDEMPOTENCY", "SKIPPED">>,
     <<"CHECKING_IDEMPOTENCY", "AUTHENTICATING">>,
     <<"AUTHENTICATING", "FETCHING">>,
     <<"FETCHING", "FORWARDING">>,
     <<"FORWARDING", "FETCHING">>,
     <<"FORWARDING", "DONE">>}
    \cup {<<st, "FAILED">> : st \in {"CHECKING_IDEMPOTENCY", "AUTHENTICATING",
                                     "FETCHING", "FORWARDING"}}

\* C16: when every call returns, every run reaches SKIPPED, DONE or FAILED,
\* for every backfill day count and every meter list.  The run starts in
\* CHECKING_IDEMPOTENCY, a step that changes the state of the orchestrator
\* follows one of the listed transitions, main is at its end exactly in the
\* terminal states, and no step is taken from a terminal state.
C16_TerminatesAlongStateMachine ==
    /\ State = "CHECKING_IDEMPOTENCY"
    /\ <>(State \in Terminal)
    /\ [](State # "NONE" /\ (pc = "exit" <=> State \in Terminal))
    /\ [][/\ State \notin Terminal
          /\ State' # State => <<State, State'>> \in Transitions]_vars

\* a backfill over the largest day count has ended in DONE
C16_Witness ==
    /\ State = "DONE"
    /\ backfill_days = MaxBackfill
    /\ Len(meter_ids) = 2

\* the calendar day before the day numbered today, as strftime("%Y%m%d")
\* gives it
DayBefore(today) == LET y == DateOf(today - 1) IN <<y.y, y.m, y.d>>

LinesWith(text) == SelectSeq(stdout, LAMBDA l : l.text = text)

\* C17: with a backfill day count of zero or less, a run that passed the
\* gate and ended in DONE made one meter-list call and one forwarding call,
\* all its fetches ask for the day before the day the clock showed when the
\* cycle began, and nothing of the backfill loop ran: the loop counter is
\* still 0 and neither "Backfilling" nor a dated "Fetching power usage for"
\* line nor "Backfill complete" was printed.
C17_NoBackfillMeansOneCycleForYesterday ==
    (backfill_days <= 0 /\ outcome = "done")
    => /\ GatePassed
       /\ Cardinality(CallIdx("meters")) = 1
       /\ Cardinality(CallIdx("forward")) = 1
       /\ calls[Len(calls)].api = "forward"
       /\ date_str = DayBefore(now)
       /\ \A i \in CallIdx("data") : calls[i].date = DayBefore(now)
       /\ Cardinality(CallIdx("data")) = Len(meter_ids)
       /\ days_ago = 0
       /\ LinesWith("Backfilling") = <<>>
       /\ FetchingLines = <<>>
       /\ LinesWith("Backfill complete") = <<>>
       /\ Len(LinesWith("Fetching power usage for yesterday")) = 1
       /\ LastLine.text = "Done"

\* a run with a negative day count fetched one meter and ended in DONE after
\* the date had changed
C17_Witness ==
    /\ backfill_days = -1
    /\ outcome = "done"
    /\ now = StartDay + 1
    /\ Cardinality(CallIdx("data")) = 1
    /\ calls[Len(calls) - 1].date = DayBefore(StartDay + 1)

\* the calendar day after the day written <<y, m, d>>
DayAfter(ymd) ==
    LET n == NextDate([y |-> ymd[1], m |-> ymd[2], d |-> ymd[3]])
    IN  <<n.y, n.m, n.d>>

\* C18 as claimed: in a backfill run that ended in DONE the days of the
\* cycles follow one another on the calendar: each cycle works on the day
\* after the day of the cycle before it, so that no day is skipped and none
\* repeated, also when the date changes while the run is in progress.
C18_BackfillDaysConsecutive ==
    (backfill_days > 0 /\ outcome = "done")
    => LET days == FetchingLines
       IN  \A k \in 1..(Len(days) - 1) : days[k + 1].date = DayAfter(days[k].date)

\* the meter list of the latest cycle has the expected shape and no record
\* of it gives an identifier
NoMeterIds == meters_data.shape = "list" /\ OccurringIds(meters_data.meters) = {}

\* C19: a cycle whose meter list is well-formed but gives no identifier
\* makes no per-meter fetch: the forwarding call comes right after the
\* meter-list call.  That call is made, once, and its body is the empty
\* sequence.
C19_NoMetersStillForwardsEmpty ==
    /\ [](NoMeterIds
           => /\ meter_ids = <<>>
              /\ CycleFetches = <<>>
              /\ data = <<>>
              /\ \/ pc = "forward" /\ Len(calls) = LastMetersCall
                 \/ /\ pc = "exit"
                    /\ Len(calls) = LastMetersCall + 1
                    /\ calls[Len(calls)].api = "forward"
                    /\ request_body = <<>>)
    /\ [][(NoMeterIds /\ pc = "forward")
           => /\ Len(calls') = Len(calls) + 1
              /\ calls'[Len(calls')].api = "forward"
              /\ request_body' = <<>>
              /\ pc' # "forward"]_vars

\* a list of two records without identifier: the run forwarded an empty body
\* and ended in DONE
C19_Witness ==
    /\ meters_data.shape = "list"
    /\ Len(meters_data.meters) = 2
    /\ OccurringIds(meters_data.meters) = {}
    /\ outcome = "done"
    /\ calls[Len(calls)].api = "forward"
    /\ calls[Len(calls) - 1].api = "meters"
    /\ request_body = <<>>

\* the cycles started so far, by the line main prints at the start of each
StartedCycles ==
    Len(SelectSeq(stdout, LAMBDA l : l.text \in {"Fetching power usage for",
                                                 "Fetching power usage for yesterday"}))

\* C20: there is one meter-list call for every cycle started, so a backfill
\* that ended in DONE made backfill_days of them.  The fetches of a cycle are
\* made for the identifiers found in the response to that cycle's own
\* meter-list call, the latest one, and for the cycle's day: no fetch is made
\* for an identifier that response does not hold, and once the fetches are
\* done each identifier of it has been fetched once.
C20_MetersListedPerCycle ==
    LET listed == CallIdx("meters")
        cycles == Cardinality(listed)
    IN
    /\ cycles = StartedCycles
    /\ (outcome = "done" /\ backfill_days > 0) => cycles = backfill_days
    /\ (cycles > 0 /\ pc # "meters")
         => LET last == CHOOSE i \in listed : \A j \in listed : j <= i
                n == Cardinality({i \in (last + 1)..Len(calls) : calls[i].api = "data"})
                fetches == [k \in 1..n |-> calls[last + k]]
                fetched == {fetches[k].meter : k \in 1..n}
            IN  /\ meters_data.shape = calls[last].resp
                /\ Len(calls) - last \in {n, n + 1}
                /\ \A k \in 1..n : fetches[k].date = date_str
                /\ meters_data.shape = "list"
                     => /\ fetched \subseteq OccurringIds(meters_data.meters)
                        /\ Cardinality(fetched) = n
                        /\ FetchReturned => fetched = OccurringIds(meters_data.meters)
                /\ meters_data.shape # "list" => n = 0

\* a backfill of two days ended in DONE after it had fetched one meter on
\* the first day and another one on the second
C20_Witness ==
    /\ backfill_days = 2
    /\ outcome = "done"
    /\ \E i, j \in CallIdx("data") :
         /\ i < j
         /\ calls[i].date # calls[j].date
         /\ calls[i].meter # calls[j].meter
         /\ CallIdx("data") = {i, j}

====
